---- MODULE Spec2Model ----
(***************************************************************************)
(* auspice-lbi-toolkit: auspice_to_newick.py (Auspice JSON -> Newick text  *)
(* + branch_lengths.json) and merge_lbi_to_auspice.py (LBI scores merged   *)
(* back into the Auspice JSON).                                            *)
(*                                                                         *)
(* JSON values are tagged records: null, bool, num (an exact rational      *)
(* n/d), str (a sequence of one-character strings), list, dict.  A tree    *)
(* node is a Python dict: a function from its key strings to JSON values,  *)
(* except "children", whose value is the sequence of child nodes.          *)
(***************************************************************************)
EXTENDS Integers, Sequences, FiniteSets, TLC

VARIABLES
    pc,                  \* position of the running tool
    input,               \* content of the Auspice JSON file given to the tool
    data,                \* data / auspice_data: the parsed document
    rootKey,             \* where root aliases data: "tree", "nodes" or "self"
    newick_str,          \* main: newick_str
    branch_lengths_data, \* main: branch_lengths_data
    lbi_file,            \* content of the LBI JSON file
    lbi_values,          \* merge_lbi_to_auspice: lbi_values
    updated_count,       \* merge_lbi_to_auspice: updated_count[0]
    backup,              \* merge_lbi_to_auspice: backup
    written,             \* files the current run has written: file |-> content
    visits,              \* canonical names each traversal assigned, in visit order
    merges,              \* runs of the merge tool started so far
    bl_node,             \* get_branch_length: node
    bl_parent,           \* get_branch_length: parent_div
    bl_result,           \* get_branch_length: returned value
    nd_node,             \* get_node_date: node
    nd_result            \* get_node_date: returned value

vars == <<pc, input, data, rootKey, newick_str, branch_lengths_data, lbi_file,
          lbi_values, updated_count, backup, written, visits, merges,
          bl_node, bl_parent, bl_result, nd_node, nd_result>>

---------------------------------------------------------------------------
(* JSON values *)

JNull == [t |-> "null"]
JBool(b) == [t |-> "bool", b |-> b]
JStr(s) == [t |-> "str", s |-> s]
JList(l) == [t |-> "list", l |-> l]
JDict(m) == [t |-> "dict", m |-> m]

RECURSIVE GCD(_, _)
GCD(a, b) == IF b = 0 THEN a ELSE GCD(b, a % b)

Abs(n) == IF n < 0 THEN -n ELSE n

\* The rational n/d, d > 0, in lowest terms.
Rat(n, d) ==
    LET g == GCD(Abs(n), d)
    IN  [t |-> "num", n |-> n \div g, d |-> d \div g]

JNum(n) == [t |-> "num", n |-> n, d |-> 1]

NumAdd(a, b) == Rat(a.n * b.d + b.n * a.d, a.d * b.d)
NumSub(a, b) == Rat(a.n * b.d - b.n * a.d, a.d * b.d)
NumDiv(a, k) == Rat(a.n, a.d * k)
NumLt(a, b) == a.n * b.d < b.n * a.d
NumMax(a, b) == IF NumLt(a, b) THEN b ELSE a
NumMin(a, b) == IF NumLt(b, a) THEN b ELSE a

IsDict(v) == v.t = "dict"
\* isinstance(v, (int, float)): a bool is an int in Python
IsNumber(v) == v.t \in {"num", "bool"}
IsNone(v) == v.t = "null"

\* float(v) of a value that passed isinstance(v, (int, float))
Float(v) == IF v.t = "bool" THEN JNum(IF v.b THEN 1 ELSE 0) ELSE v

\* Python truthiness
Truthy(v) ==
    CASE v.t = "null" -> FALSE
      [] v.t = "bool" -> v.b
      [] v.t = "num"  -> v.n # 0
      [] v.t = "str"  -> v.s # <<>>
      [] v.t = "list" -> v.l # <<>>
      [] v.t = "dict" -> DOMAIN v.m # {}

\* d[k] = v on a dict
Put(d, k, v) == (k :> v) @@ d

\* 'children' in node and node['children']
HasChildren(node) == "children" \in DOMAIN node /\ node["children"] # <<>>

Children(node) == IF HasChildren(node) THEN node["children"] ELSE <<>>

---------------------------------------------------------------------------
(* Text *)

DigitChar(k) == <<"0", "1", "2", "3", "4", "5", "6", "7", "8", "9">>[k + 1]

RECURSIVE Digits(_)
Digits(n) == IF n < 10 THEN <<DigitChar(n)>>
             ELSE Digits(n \div 10) \o <<DigitChar(n % 10)>>

RECURSIVE ZeroPad(_, _)
ZeroPad(s, width) == IF Len(s) >= width THEN s ELSE ZeroPad(<<"0">> \o s, width)

\* f"{counter:07d}"
Format07d(counter) == ZeroPad(Digits(counter), 7)

\* str(name)
PyStr(v) ==
    CASE v.t = "str"  -> v.s
      [] v.t = "bool" -> IF v.b THEN <<"T", "r", "u", "e">>
                         ELSE <<"F", "a", "l", "s", "e">>
      [] v.t = "num"  -> IF v.n < 0 THEN <<"-">> \o Digits(-v.n) ELSE Digits(v.n)
      [] OTHER        -> <<"?">>

Unsafe == {":", "(", ")", ",", ";"}

ReplaceUnsafe(s) == [i \in 1..Len(s) |-> IF s[i] \in Unsafe THEN "_" ELSE s[i]]

clean_name(name) == IF IsNone(name) THEN <<>> ELSE ReplaceUnsafe(PyStr(name))

clean_name_for_matching(name) == IF IsNone(name) THEN <<>> ELSE ReplaceUnsafe(PyStr(name))

\* f"{x:.6f}" of a rational x > 0, rounded half up at the sixth decimal
Format6f(x) ==
    LET micro == (2 * x.n * 1000000 + x.d) \div (2 * x.d)
    IN  Digits(micro \div 1000000) \o <<".">> \o ZeroPad(Digits(micro % 1000000), 6)

RECURSIVE Join(_, _)
Join(parts, sep) ==
    IF parts = <<>> THEN <<>>
    ELSE IF Len(parts) = 1 THEN parts[1]
    ELSE parts[1] \o sep \o Join(Tail(parts), sep)

---------------------------------------------------------------------------
(* Divergence and branch length *)

\* node.get('name', node.get('strain'))
GetName(node) ==
    IF "name" \in DOMAIN node THEN node["name"]
    ELSE IF "strain" \in DOMAIN node THEN node["strain"]
    ELSE JNull

HasDiv(node, bag) ==
    bag \in DOMAIN node /\ IsDict(node[bag]) /\ "div" \in DOMAIN node[bag].m

get_divergence(node) ==
    IF HasDiv(node, "node_attrs") THEN node["node_attrs"].m["div"]
    ELSE IF HasDiv(node, "attr") THEN node["attr"].m["div"]
    ELSE JNull

FromDivergence(current_div, parent_div) ==
    LET branch_length ==
            IF ~IsNone(current_div) /\ ~IsNone(parent_div)
            THEN NumSub(current_div, parent_div)
            ELSE IF ~IsNone(current_div) THEN current_div
            ELSE JNum(0)
    IN  NumMax(JNum(0), branch_length)

\* get_branch_length without the final max(0.0, ...)
get_branch_length_unclamped(node, parent_div) ==
    IF HasDiv(node, "node_attrs") \/ HasDiv(node, "attr")
    THEN LET current_div == get_divergence(node)
         IN  IF ~IsNone(current_div) /\ ~IsNone(parent_div)
             THEN NumSub(current_div, parent_div)
             ELSE IF ~IsNone(current_div) THEN current_div ELSE JNum(0)
    ELSE IF "branch_length" \in DOMAIN node THEN node["branch_length"]
    ELSE JNum(0)

\* get_branch_length with the divergence returned as the length
get_branch_length_parent_ignored(node, parent_div) ==
    IF HasDiv(node, "node_attrs")
    THEN FromDivergence(node["node_attrs"].m["div"], JNull)
    ELSE IF HasDiv(node, "attr")
    THEN FromDivergence(node["attr"].m["div"], JNull)
    ELSE IF "branch_length" \in DOMAIN node THEN node["branch_length"]
    ELSE FromDivergence(JNull, parent_div)

get_branch_length(node, parent_div) ==
    IF HasDiv(node, "node_attrs")
    THEN FromDivergence(node["node_attrs"].m["div"], parent_div)
    ELSE IF HasDiv(node, "attr")
    THEN FromDivergence(node["attr"].m["div"], parent_div)
    ELSE IF "branch_length" \in DOMAIN node THEN node["branch_length"]
    ELSE FromDivergence(JNull, parent_div)

---------------------------------------------------------------------------
(* Dates *)

\* the two forms get_node_date accepts for a num_date value
NumDateOf(bagdict) ==
    LET nd == bagdict["num_date"]
    IN  IF IsNumber(nd) THEN Float(nd)
        ELSE IF IsDict(nd) /\ "value" \in DOMAIN nd.m THEN Float(nd.m["value"])
        ELSE JNull

\* the midpoint of a confidence interval, or None
ConfidenceOf(bagdict) ==
    LET nd == bagdict["num_date"]
    IN  IF "confidence" \in DOMAIN nd.m
        THEN LET conf == nd.m["confidence"]
             IN  IF conf.t = "list" /\ Len(conf.l) = 2
                 THEN NumDiv(NumAdd(conf.l[1], conf.l[2]), 2)
                 ELSE JNull
        ELSE JNull

get_node_date(node) ==
    LET fromNodeAttrs ==
            IF "node_attrs" \in DOMAIN node /\ IsDict(node["node_attrs"])
            THEN LET node_attrs == node["node_attrs"].m
                 IN  IF "num_date" \in DOMAIN node_attrs
                     THEN NumDateOf(node_attrs)
                     ELSE IF "num_date" \in DOMAIN node_attrs
                             /\ IsDict(node_attrs["num_date"])
                     THEN ConfidenceOf(node_attrs)
                     ELSE JNull
            ELSE JNull
        fromAttr ==
            IF "attr" \in DOMAIN node /\ IsDict(node["attr"])
            THEN LET attr == node["attr"].m
                 IN  IF "num_date" \in DOMAIN attr THEN NumDateOf(attr) ELSE JNull
            ELSE JNull
    IN  IF ~IsNone(fromNodeAttrs) THEN fromNodeAttrs ELSE fromAttr

RECURSIVE collect_all_dates(_)
RECURSIVE CollectChildren(_)
collect_all_dates(node) ==
    LET date == get_node_date(node)
    IN  (IF ~IsNone(date) THEN <<date>> ELSE <<>>) \o CollectChildren(Children(node))

CollectChildren(children) ==
    IF children = <<>> THEN <<>>
    ELSE collect_all_dates(Head(children)) \o CollectChildren(Tail(children))

RECURSIVE Sum(_)
Sum(s) == IF s = <<>> THEN JNum(0) ELSE NumAdd(Head(s), Sum(Tail(s)))

RECURSIVE MinOf(_)
MinOf(s) == IF Len(s) = 1 THEN s[1] ELSE NumMin(s[1], MinOf(Tail(s)))

RECURSIVE MaxOf(_)
MaxOf(s) == IF Len(s) = 1 THEN s[1] ELSE NumMax(s[1], MaxOf(Tail(s)))

\* Last resort of the date estimation
DefaultDate == 2023

estimate_missing_date(node, parent_date, child_dates, global_date_range) ==
    IF ~IsNone(parent_date) /\ Len(child_dates) > 0
    THEN LET avg_child_date == NumDiv(Sum(child_dates), Len(child_dates))
         IN  NumDiv(NumAdd(parent_date, avg_child_date), 2)
    ELSE IF ~IsNone(parent_date) THEN parent_date
    ELSE IF Len(global_date_range) >= 2
    THEN NumDiv(NumAdd(MinOf(global_date_range), MaxOf(global_date_range)), 2)
    ELSE JNum(DefaultDate)

\* the explicit dates of the children, in order
ChildDates(children) ==
    LET has == SelectSeq(children, LAMBDA child : ~IsNone(get_node_date(child)))
    IN  [i \in 1..Len(has) |-> get_node_date(has[i])]

\* Returns the node as the call leaves it: _computed_date stored on it and on
\* every descendant (hasattr(node, '_computed_date') is False for a dict).
RECURSIVE assign_dates_recursively(_, _, _)
assign_dates_recursively(node, parent_date, global_date_range) ==
    LET explicit == get_node_date(node)
        child_dates == ChildDates(Children(node))
        current_date ==
            IF IsNone(explicit)
            THEN estimate_missing_date(node, parent_date, child_dates, global_date_range)
            ELSE explicit
        dated == Put(node, "_computed_date", current_date)
    IN  IF HasChildren(node)
        THEN Put(dated, "children",
                 [i \in 1..Len(node["children"]) |->
                     assign_dates_recursively(node["children"][i], current_date,
                                              global_date_range)])
        ELSE dated

---------------------------------------------------------------------------
(* Names.  Each traversal carries its own copy of the naming code. *)

NODE_ == <<"N", "O", "D", "E", "_">>
LEAF_ == <<"L", "E", "A", "F", "_">>

\* Generated without the leaf case
Generated_always_internal(node, counter) ==
    [name |-> JStr(NODE_ \o Format07d(counter)), counter |-> counter + 1]

\* the name a traversal gives a node that has none, and the counter it leaves
Generated(node, counter) ==
    [name |-> JStr((IF HasChildren(node) THEN NODE_ ELSE LEAF_) \o Format07d(counter)),
     counter |-> counter + 1]

NewickNodeName(node, counter) ==
    LET node_name == GetName(node)
    IN  IF ~Truthy(node_name) THEN Generated(node, counter)
        ELSE [name |-> node_name, counter |-> counter]

\* ExtractNodeName with the counter advanced for every node
ExtractNodeName_counts_named(node, counter) ==
    LET node_name == GetName(node)
    IN  IF ~Truthy(node_name) THEN Generated(node, counter)
        ELSE [name |-> node_name, counter |-> counter + 1]

ExtractNodeName(node, counter) ==
    LET node_name == GetName(node)
    IN  IF ~Truthy(node_name) THEN Generated(node, counter)
        ELSE [name |-> node_name, counter |-> counter]

\* MergeNodeName falling back to strain when name is empty
MergeNodeName_strain_fallback(node, counter) ==
    LET node_name == IF "name" \in DOMAIN node /\ Truthy(node["name"]) THEN node["name"]
                     ELSE IF "strain" \in DOMAIN node THEN node["strain"]
                     ELSE JNull
    IN  IF ~Truthy(node_name) THEN Generated(node, counter)
        ELSE [name |-> node_name, counter |-> counter]

MergeNodeName(node, counter) ==
    LET node_name == GetName(node)
    IN  IF ~Truthy(node_name) THEN Generated(node, counter)
        ELSE [name |-> node_name, counter |-> counter]

---------------------------------------------------------------------------
(* Tree Serializer *)

\* Returns [text, counter, names]: the Newick text of the subtree, the counter
\* after it, and the canonical names in the order the calls assigned them.
RECURSIVE json_to_newick(_, _, _)
RECURSIVE NewickChildren(_, _, _)
json_to_newick(node, parent_div, node_counter) ==
    LET named == NewickNodeName(node, node_counter)
        clean_node_name == clean_name(named.name)
        branch_length == get_branch_length(node, parent_div)
        current_div == get_divergence(node)
        branch_str == IF NumLt(JNum(0), branch_length)
                      THEN <<":">> \o Format6f(branch_length) ELSE <<>>
    IN  IF HasChildren(node)
        THEN LET sub == NewickChildren(node["children"], current_div, named.counter)
             IN  [text |-> <<"(">> \o Join(sub.texts, <<",">>) \o <<")">>
                           \o clean_node_name \o branch_str,
                  counter |-> sub.counter,
                  names |-> <<clean_node_name>> \o sub.names]
        ELSE [text |-> clean_node_name \o branch_str,
              counter |-> named.counter,
              names |-> <<clean_node_name>>]

\* the loop over node['children']: [texts, counter, names]
NewickChildren(children, current_div, node_counter) ==
    IF children = <<>>
    THEN [texts |-> <<>>, counter |-> node_counter, names |-> <<>>]
    ELSE LET first == json_to_newick(Head(children), current_div, node_counter)
             rest == NewickChildren(Tail(children), current_div, first.counter)
         IN  [texts |-> <<first.text>> \o rest.texts,
              counter |-> rest.counter,
              names |-> first.names \o rest.names]

---------------------------------------------------------------------------
(* Annotation Extractor *)

EmptyDict == [k \in {} |-> JNull]

IsScalar(v) == v.t \in {"str", "num", "bool"}

\* the loop over node["node_attrs"].items(): the entries it writes
Passthrough(node) ==
    IF "node_attrs" \in DOMAIN node /\ IsDict(node["node_attrs"])
    THEN LET node_attrs == node["node_attrs"].m
             copied == {key \in DOMAIN node_attrs \ {"div", "num_date"} :
                           \/ IsScalar(node_attrs[key])
                           \/ (IsDict(node_attrs[key])
                               /\ "value" \in DOMAIN node_attrs[key].m)}
         IN  [key \in copied |->
                 IF IsScalar(node_attrs[key]) THEN node_attrs[key]
                 ELSE node_attrs[key].m["value"]]
    ELSE EmptyDict

\* node_entry as filled before the loop over node_attrs
SpecialFields(node, parent_div, global_date_range) ==
    LET branch_length == get_branch_length(node, parent_div)
        current_div == get_divergence(node)
        explicit == get_node_date(node)
        node_date == IF IsNone(explicit) /\ "_computed_date" \in DOMAIN node
                     THEN node["_computed_date"] ELSE explicit
        fallback_date ==
            IF Len(global_date_range) >= 2
            THEN NumDiv(NumAdd(MinOf(global_date_range), MaxOf(global_date_range)), 2)
            ELSE JNum(DefaultDate)
        e1 == IF NumLt(JNum(0), branch_length)
              THEN Put(EmptyDict, "branch_length", branch_length) ELSE EmptyDict
        e2 == IF ~IsNone(current_div) THEN Put(e1, "div", current_div) ELSE e1
    IN  Put(e2, "numdate", IF ~IsNone(node_date) THEN Float(node_date) ELSE fallback_date)

NodeEntry(node, parent_div, global_date_range) ==
    Passthrough(node) @@ SpecialFields(node, parent_div, global_date_range)

\* acc is [nodes, counter, names]: node_data["nodes"], node_counter[0] and the
\* canonical names in the order the calls assigned them.
RECURSIVE extract_node_data(_, _, _, _)
RECURSIVE ExtractChildren(_, _, _, _)
extract_node_data(node, acc, parent_div, global_date_range) ==
    LET named == ExtractNodeName(node, acc.counter)
        clean_node_name == clean_name(named.name)
        node_entry == NodeEntry(node, parent_div, global_date_range)
        stored == [nodes |-> Put(acc.nodes, clean_node_name, node_entry),
                   counter |-> named.counter,
                   names |-> Append(acc.names, clean_node_name)]
    IN  ExtractChildren(Children(node), stored, get_divergence(node), global_date_range)

ExtractChildren(children, acc, current_div, global_date_range) ==
    IF children = <<>> THEN acc
    ELSE ExtractChildren(Tail(children),
                         extract_node_data(Head(children), acc, current_div,
                                           global_date_range),
                         current_div, global_date_range)

\* Returns [root, nodes, names]: the root as the date pass leaves it and
\* node_data["nodes"] (with the names the extractor assigned, in order).
create_branch_lengths_json(root_node) ==
    LET found == collect_all_dates(root_node)
        all_dates == IF found # <<>> THEN found ELSE <<JNum(DefaultDate)>>
        dated == assign_dates_recursively(root_node, JNull, all_dates)
        out == extract_node_data(dated,
                                 [nodes |-> EmptyDict, counter |-> 0, names |-> <<>>],
                                 JNull, all_dates)
    IN  [root |-> dated, nodes |-> out.nodes, names |-> out.names]

---------------------------------------------------------------------------
(* Score Merger *)

\* WriteLbi with node_attrs and attr replaced instead of updated
WriteLbi_replacing(node, lbi_value) ==
    Put(Put(node, "node_attrs", JDict([lbi |-> JDict([value |-> lbi_value])])),
        "attr", JDict([lbi |-> lbi_value]))

\* the body of "if clean_node_name in lbi_values": the node it leaves
WriteLbi(node, lbi_value) ==
    LET n1 == IF "node_attrs" \notin DOMAIN node
              THEN Put(node, "node_attrs", JDict(EmptyDict)) ELSE node
        n2 == Put(n1, "node_attrs",
                  JDict(Put(n1["node_attrs"].m, "lbi", JDict([value |-> lbi_value]))))
        n3 == IF "attr" \notin DOMAIN n2 THEN Put(n2, "attr", JDict(EmptyDict)) ELSE n2
    IN  Put(n3, "attr", JDict(Put(n3["attr"].m, "lbi", lbi_value)))

\* acc is [counter, updated, names]: node_counter[0], updated_count[0] and the
\* canonical names looked up so far.  Returns [node, counter, updated, names].
RECURSIVE update_node_with_lbi(_, _, _)
RECURSIVE UpdateChildren(_, _, _)
update_node_with_lbi(node, lbi, acc) ==
    LET named == MergeNodeName(node, acc.counter)
        clean_node_name == clean_name_for_matching(named.name)
        hit == clean_node_name \in DOMAIN lbi
        marked == IF hit THEN WriteLbi(node, lbi[clean_node_name]) ELSE node
        here == [counter |-> named.counter,
                 updated |-> IF hit THEN acc.updated + 1 ELSE acc.updated,
                 names |-> Append(acc.names, clean_node_name)]
    IN  IF HasChildren(node)
        THEN LET sub == UpdateChildren(node["children"], lbi, here)
             IN  [node |-> Put(marked, "children", sub.children),
                  counter |-> sub.counter, updated |-> sub.updated,
                  names |-> sub.names]
        ELSE [node |-> marked, counter |-> here.counter,
              updated |-> here.updated, names |-> here.names]

\* the loop over node['children']: [children, counter, updated, names]
UpdateChildren(children, lbi, acc) ==
    IF children = <<>>
    THEN [children |-> <<>>, counter |-> acc.counter, updated |-> acc.updated,
          names |-> acc.names]
    ELSE LET first == update_node_with_lbi(Head(children), lbi, acc)
             rest == UpdateChildren(Tail(children), lbi,
                                    [counter |-> first.counter,
                                     updated |-> first.updated,
                                     names |-> first.names])
         IN  [children |-> <<first.node>> \o rest.children,
              counter |-> rest.counter, updated |-> rest.updated,
              names |-> rest.names]

\* load_lbi_data: the scores of the records of "nodes" that carry "lbi"
load_lbi_data(lbi_data) ==
    IF "nodes" \in DOMAIN lbi_data
    THEN LET scored == {node_name \in DOMAIN lbi_data["nodes"] :
                           "lbi" \in DOMAIN lbi_data["nodes"][node_name]}
         IN  [node_name \in scored |-> lbi_data["nodes"][node_name]["lbi"]]
    ELSE EmptyDict

---------------------------------------------------------------------------
(* Inputs *)

MaxNodes == 3
MaxLbiColorings == 2
MaxDiv == 2
MaxMerges == 2

MkNode(v, kids) == IF kids = <<>> THEN v ELSE Put(v, "children", kids)

\* the ordered trees of exactly n nodes (forests of m nodes) over the nodes V
RECURSIVE TreesOfSize(_, _)
RECURSIVE ForestsOfSize(_, _)
TreesOfSize(V, n) ==
    IF n = 0 THEN {} ELSE {MkNode(v, f) : v \in V, f \in ForestsOfSize(V, n - 1)}

ForestsOfSize(V, m) ==
    IF m = 0 THEN {<<>>}
    ELSE UNION {{<<tr>> \o f : tr \in TreesOfSize(V, k), f \in ForestsOfSize(V, m - k)} :
                   k \in 1..m}

Trees(V, n) == UNION {TreesOfSize(V, k) : k \in 1..n}

NodeA == [name |-> JStr(<<"A">>), node_attrs |-> JDict([div |-> JNum(0)])]
NodeB == [name |-> JStr(<<"B">>),
          node_attrs |-> JDict([div |-> Rat(1, 2), num_date |-> JNum(2020)])]
NodeU == [node_attrs |-> JDict([div |-> Rat(3, 10)])]
NodeX == [name |-> JStr(<<"a", ":", "b">>),
          attr |-> JDict([div |-> Rat(1, 5),
                          num_date |-> JDict([value |-> JNum(2022)])]),
          branch_length |-> JNum(4)]
NodeS == [name |-> JNull, strain |-> JStr(<<"S">>),
          branch_length |-> Rat(-1, 5),
          node_attrs |-> JDict([numdate |-> JStr(<<"x">>),
                                branch_length |-> JStr(<<"y">>),
                                country |-> JDict([value |-> JStr(<<"K">>)]),
                                clade |-> JStr(<<"c">>),
                                tags |-> JList(<<JStr(<<"g">>)>>),
                                num_date |-> JDict([confidence |->
                                    JList(<<JNum(2018), JNum(2020)>>)])])]
NodeT == [strain |-> JStr(<<"S", ",", "1">>), branch_length |-> Rat(1, 10),
          children |-> <<>>]

ConvertNodes == {NodeA, NodeB, NodeU, NodeX, NodeS, NodeT}

ScenarioTree == MkNode(NodeA, <<NodeB, NodeU>>)

EmptyTreeDoc == [tree |-> EmptyDict]

\* nodes whose identifiers differ from every other in the input
NodeY == [name |-> JStr(<<"a", "_", "b">>)]
NodeL == [name |-> JStr(LEAF_ \o Format07d(0))]

\* trees of pairwise distinct identifiers
DistinctlyNamedTrees == {MkNode(NodeX, <<NodeY>>), MkNode(NodeL, <<NodeU>>)}

ConvertDocs ==
    {[tree |-> tr] : tr \in Trees(ConvertNodes, MaxNodes) \cup DistinctlyNamedTrees}
    \cup {[nodes |-> ScenarioTree], ScenarioTree, EmptyTreeDoc}

MergeA == [name |-> JStr(<<"A">>)]
MergeB == [name |-> JStr(<<"B">>),
           node_attrs |-> JDict([div |-> Rat(1, 2),
                                 lbi |-> JDict([value |-> Rat(1, 10)])]),
           attr |-> JDict([lbi |-> Rat(1, 10)])]
MergeU == [name |-> JStr(<<>>), strain |-> JStr(<<"S">>),
           node_attrs |-> JDict([div |-> Rat(3, 10)])]

MergeNodes == {MergeA, MergeB, MergeU}

OtherColoring == [key |-> "gt", title |-> "Genotype", type |-> "categorical"]
OldLbiColoring == [key |-> "lbi", title |-> "LBI", type |-> "continuous"]

Metas ==
    {[colorings |-> <<OtherColoring>> \o [i \in 1..k |-> OldLbiColoring],
      updated |-> "2024-01-01"] : k \in 0..MaxLbiColorings}

MergeDocs ==
    {[tree |-> tr] : tr \in Trees(MergeNodes, MaxNodes)}
    \cup {[tree |-> tr, meta |-> m] : tr \in Trees(MergeNodes, MaxNodes), m \in Metas}
    \cup {[nodes |-> MergeB], MergeB, EmptyTreeDoc}

ScoreFiles ==
    {[generated_by |-> "augur"],
     [nodes |-> (<<"B">> :> [lbi |-> Rat(3, 4)]) @@ (<<"A">> :> [clade |-> "c"])],
     [nodes |-> [n \in {<<"A">>, <<"B">>, LEAF_ \o Format07d(0), NODE_ \o Format07d(0),
                        LEAF_ \o Format07d(1)} |-> [lbi |-> Rat(Len(n), 10)]]]}

---------------------------------------------------------------------------
(* The document root *)

FindRootKey(d) ==
    IF "tree" \in DOMAIN d THEN "tree"
    ELSE IF "nodes" \in DOMAIN d THEN "nodes"
    ELSE "self"

RootOf(d, key) == IF key = "self" THEN d ELSE d[key]

\* root aliases the document: a change of root is a change of the document
SetRoot(d, key, root) == IF key = "self" THEN root ELSE Put(d, key, root)

NoVisits == [newick |-> <<>>, extract |-> <<>>, merge |-> <<>>]

---------------------------------------------------------------------------
(* auspice_to_newick.py: main *)

Idle ==
    /\ data = EmptyDict /\ rootKey = "none" /\ newick_str = <<>>
    /\ branch_lengths_data = EmptyDict /\ lbi_values = EmptyDict
    /\ updated_count = 0 /\ written = EmptyDict /\ visits = NoVisits
    /\ bl_node = EmptyDict /\ bl_parent = JNull /\ bl_result = JNull
    /\ nd_node = EmptyDict /\ nd_result = JNull

Init ==
    /\ pc = "c_start"
    /\ input \in ConvertDocs
    /\ lbi_file = EmptyDict /\ backup = TRUE /\ merges = 0
    /\ Idle

\* open(args.input) and json.load: FileNotFoundError and JSONDecodeError exit 1
LoadInput ==
    /\ pc = "c_start"
    /\ \/ /\ pc' = "c_exit"
          /\ UNCHANGED data
       \/ /\ pc' = "c_loaded"
          /\ data' = input
    /\ UNCHANGED <<input, rootKey, newick_str, branch_lengths_data, lbi_file,
                   lbi_values, updated_count, backup, written, visits, merges,
                   bl_node, bl_parent, bl_result, nd_node, nd_result>>

\* root under 'tree', else 'nodes', else the document; "if not root" raises
FindRoot ==
    /\ pc = "c_loaded"
    /\ rootKey' = FindRootKey(data)
    /\ pc' = IF RootOf(data, FindRootKey(data)) = EmptyDict THEN "c_exit" ELSE "c_rooted"
    /\ UNCHANGED <<input, data, newick_str, branch_lengths_data, lbi_file,
                   lbi_values, updated_count, backup, written, visits, merges,
                   bl_node, bl_parent, bl_result, nd_node, nd_result>>

ToNewick ==
    /\ pc = "c_rooted"
    /\ LET out == json_to_newick(RootOf(data, rootKey), JNull, 0)
       IN  /\ newick_str' = out.text \o <<";">>
           /\ visits' = [visits EXCEPT !.newick = out.names]
    /\ pc' = "c_newick"
    /\ UNCHANGED <<input, data, rootKey, branch_lengths_data, lbi_file,
                   lbi_values, updated_count, backup, written, merges,
                   bl_node, bl_parent, bl_result, nd_node, nd_result>>

GeneratedBy == [program |-> "auspice_to_newick.py", version |-> "1.0.2"]

CreateBranchLengths ==
    /\ pc = "c_newick"
    /\ LET out == create_branch_lengths_json(RootOf(data, rootKey))
       IN  /\ branch_lengths_data' = [nodes |-> out.nodes, generated_by |-> GeneratedBy]
           /\ data' = SetRoot(data, rootKey, out.root)
           /\ visits' = [visits EXCEPT !.extract = out.names]
    /\ pc' = "c_extracted"
    /\ UNCHANGED <<input, rootKey, newick_str, lbi_file, lbi_values,
                   updated_count, backup, written, merges,
                   bl_node, bl_parent, bl_result, nd_node, nd_result>>

\* open(args.output, 'w') and f.write: an OSError exits 1
WriteNewick ==
    /\ pc = "c_extracted"
    /\ \/ /\ pc' = "c_exit"
          /\ UNCHANGED written
       \/ /\ pc' = "c_wrote_newick"
          /\ written' = Put(written, "newick", newick_str)
    /\ UNCHANGED <<input, data, rootKey, newick_str, branch_lengths_data, lbi_file,
                   lbi_values, updated_count, backup, visits, merges,
                   bl_node, bl_parent, bl_result, nd_node, nd_result>>

\* open(branch_lengths_path, 'w') and json.dump: an OSError exits 1
WriteBranchLengths ==
    /\ pc = "c_wrote_newick"
    /\ \/ /\ pc' = "c_exit"
          /\ UNCHANGED written
       \/ /\ pc' = "c_done"
          /\ written' = Put(written, "branch_lengths", branch_lengths_data)
    /\ UNCHANGED <<input, data, rootKey, newick_str, branch_lengths_data, lbi_file,
                   lbi_values, updated_count, backup, visits, merges,
                   bl_node, bl_parent, bl_result, nd_node, nd_result>>

NextConvert ==
    \/ LoadInput
    \/ FindRoot
    \/ ToNewick
    \/ CreateBranchLengths
    \/ WriteNewick
    \/ WriteBranchLengths

---------------------------------------------------------------------------
(* merge_lbi_to_auspice.py: merge_lbi_to_auspice, run from main *)

\* The LBI file of the pipeline: a record with an "lbi" score for every node
\* of branch_lengths.json.
AugurLbi(branch_lengths) ==
    [nodes |-> [n \in DOMAIN branch_lengths["nodes"] |-> [lbi |-> Rat(Len(n), 10)]]]

\* The merge tool is started on the converted tree, with the LBI file computed
\* from branch_lengths.json and a backup (the default).
RunMerge ==
    /\ pc = "c_done"
    /\ pc' = "m_start"
    /\ lbi_file' = AugurLbi(written["branch_lengths"])
    /\ backup' = TRUE
    /\ merges' = 1
    /\ data' = EmptyDict /\ rootKey' = "none" /\ written' = EmptyDict
    /\ UNCHANGED <<input, newick_str, branch_lengths_data, lbi_values,
                   updated_count, visits, bl_node, bl_parent, bl_result,
                   nd_node, nd_result>>

\* load_lbi_data: a missing or malformed file exits 1
LoadLbi ==
    /\ pc = "m_start"
    /\ \/ /\ pc' = "m_exit"
          /\ UNCHANGED lbi_values
       \/ /\ pc' = "m_lbi"
          /\ lbi_values' = load_lbi_data(lbi_file)
    /\ UNCHANGED <<input, data, rootKey, newick_str, branch_lengths_data, lbi_file,
                   updated_count, backup, written, visits, merges,
                   bl_node, bl_parent, bl_result, nd_node, nd_result>>

LoadAuspice ==
    /\ pc = "m_lbi"
    /\ \/ /\ pc' = "m_exit"
          /\ UNCHANGED data
       \/ /\ pc' = "m_loaded"
          /\ data' = input
    /\ UNCHANGED <<input, rootKey, newick_str, branch_lengths_data, lbi_file,
                   lbi_values, updated_count, backup, written, visits, merges,
                   bl_node, bl_parent, bl_result, nd_node, nd_result>>

\* "if backup": the copy is written before the root is looked for; an OSError
\* reaches main's "except Exception" and exits 1
Backup ==
    /\ pc = "m_loaded"
    /\ \/ /\ backup
          /\ pc' = "m_exit"
          /\ UNCHANGED written
       \/ /\ backup
          /\ pc' = "m_backed"
          /\ written' = Put(written, "backup", data)
       \/ /\ ~backup
          /\ pc' = "m_backed"
          /\ UNCHANGED written
    /\ UNCHANGED <<input, data, rootKey, newick_str, branch_lengths_data, lbi_file,
                   lbi_values, updated_count, backup, visits, merges,
                   bl_node, bl_parent, bl_result, nd_node, nd_result>>

MergeFindRoot ==
    /\ pc = "m_backed"
    /\ rootKey' = FindRootKey(data)
    /\ pc' = IF RootOf(data, FindRootKey(data)) = EmptyDict THEN "m_exit" ELSE "m_rooted"
    /\ UNCHANGED <<input, data, newick_str, branch_lengths_data, lbi_file,
                   lbi_values, updated_count, backup, written, visits, merges,
                   bl_node, bl_parent, bl_result, nd_node, nd_result>>

UpdateTree ==
    /\ pc = "m_rooted"
    /\ LET out == update_node_with_lbi(RootOf(data, rootKey), lbi_values,
                                       [counter |-> 0, updated |-> 0, names |-> <<>>])
       IN  /\ data' = SetRoot(data, rootKey, out.node)
           /\ updated_count' = out.updated
           /\ visits' = [visits EXCEPT !.merge = out.names]
    /\ pc' = "m_updated"
    /\ UNCHANGED <<input, rootKey, newick_str, branch_lengths_data, lbi_file,
                   lbi_values, backup, written, merges,
                   bl_node, bl_parent, bl_result, nd_node, nd_result>>

LbiColoring ==
    [key |-> "lbi", title |-> "Local Branching Index (LBI)", type |-> "continuous",
     scale |-> <<<<JNum(0), "#4575b4">>, <<Rat(1, 2), "#fee90d">>,
                 <<JNum(1), "#d73027">>>>]

\* LbiColoringExists with the check left out
LbiColoringExists_unchecked(colorings) == FALSE

\* coloring.get("key") == "lbi" for some coloring
LbiColoringExists(colorings) ==
    \E i \in 1..Len(colorings) :
        "key" \in DOMAIN colorings[i] /\ colorings[i]["key"] = "lbi"

\* the document as the metadata update leaves it
WithMeta(d) ==
    LET d1 == IF "meta" \notin DOMAIN d THEN Put(d, "meta", EmptyDict) ELSE d
        m1 == IF "colorings" \notin DOMAIN d1["meta"]
              THEN Put(d1["meta"], "colorings", <<>>) ELSE d1["meta"]
        m2 == IF ~LbiColoringExists(m1["colorings"])
              THEN Put(m1, "colorings", Append(m1["colorings"], LbiColoring)) ELSE m1
        m3 == IF "updated" \notin DOMAIN m2 THEN Put(m2, "updated", "unknown") ELSE m2
    IN  Put(d1, "meta", m3)

UpdateMeta ==
    /\ pc = "m_updated"
    /\ data' = WithMeta(data)
    /\ pc' = "m_meta"
    /\ UNCHANGED <<input, rootKey, newick_str, branch_lengths_data, lbi_file,
                   lbi_values, updated_count, backup, written, visits, merges,
                   bl_node, bl_parent, bl_result, nd_node, nd_result>>

\* open(output_file, 'w') and json.dump: an OSError exits 1
WriteOutput ==
    /\ pc = "m_meta"
    /\ \/ /\ pc' = "m_exit"
          /\ UNCHANGED written
       \/ /\ pc' = "m_done"
          /\ written' = Put(written, "output", data)
    /\ UNCHANGED <<input, data, rootKey, newick_str, branch_lengths_data, lbi_file,
                   lbi_values, updated_count, backup, visits, merges,
                   bl_node, bl_parent, bl_result, nd_node, nd_result>>

\* The merge tool is run again, on the document it wrote, with the same LBI
\* file.
RunMergeAgain ==
    /\ pc = "m_done"
    /\ merges < MaxMerges
    /\ pc' = "m_start"
    /\ input' = written["output"]
    /\ merges' = merges + 1
    /\ data' = EmptyDict /\ rootKey' = "none" /\ written' = EmptyDict
    /\ lbi_values' = EmptyDict /\ updated_count' = 0
    /\ visits' = NoVisits
    /\ UNCHANGED <<newick_str, branch_lengths_data, lbi_file, backup,
                   bl_node, bl_parent, bl_result, nd_node, nd_result>>

MergeSteps ==
    \/ LoadLbi
    \/ LoadAuspice
    \/ Backup
    \/ MergeFindRoot
    \/ UpdateTree
    \/ UpdateMeta
    \/ WriteOutput

Next == NextConvert \/ RunMerge \/ MergeSteps

\* The conversion of a document, then the merge of its LBI scores into it.
Spec == Init /\ [][Next]_vars

InitMerge ==
    /\ pc = "m_start"
    /\ input \in MergeDocs
    /\ lbi_file \in ScoreFiles
    /\ backup \in BOOLEAN
    /\ merges = 1
    /\ Idle

NextMerge == MergeSteps \/ RunMergeAgain

\* The merge tool alone, run up to MaxMerges times on its own output.
SpecMerge == InitMerge /\ [][NextMerge]_vars

---------------------------------------------------------------------------
(* get_branch_length on its own *)

DivValues == {JNull} \cup {Rat(k, 2) : k \in 0..MaxDiv}

Bags == {JStr(<<"x">>), JDict(EmptyDict)} \cup {JDict([div |-> v]) : v \in DivValues}

Absent == [t |-> "absent"]

\* a dict with the keys of f whose value is not Absent
Present(f) == [k \in {j \in DOMAIN f : f[j] # Absent} |-> f[k]]

BranchLengthNodes ==
    {Present([node_attrs |-> na, attr |-> a, branch_length |-> bl]) :
        na \in Bags \cup {Absent}, a \in Bags \cup {Absent},
        bl \in {Rat(k, 2) : k \in -1..MaxDiv} \cup {Absent}}

InitBranchLength ==
    /\ pc = "bl_call"
    /\ bl_node \in BranchLengthNodes
    /\ bl_parent \in DivValues
    /\ bl_result = JNull
    /\ nd_node = EmptyDict /\ nd_result = JNull
    /\ input = EmptyDict /\ lbi_file = EmptyDict /\ backup = TRUE /\ merges = 0
    /\ data = EmptyDict /\ rootKey = "none" /\ newick_str = <<>>
    /\ branch_lengths_data = EmptyDict /\ lbi_values = EmptyDict
    /\ updated_count = 0 /\ written = EmptyDict /\ visits = NoVisits

ResolveBranchLength ==
    /\ pc = "bl_call"
    /\ bl_result' = get_branch_length(bl_node, bl_parent)
    /\ pc' = "bl_return"
    /\ UNCHANGED <<input, data, rootKey, newick_str, branch_lengths_data, lbi_file,
                   lbi_values, updated_count, backup, written, visits, merges,
                   bl_node, bl_parent, nd_node, nd_result>>

NextBranchLength == ResolveBranchLength

\* get_branch_length applied to every node of BranchLengthNodes
SpecBranchLength == InitBranchLength /\ [][NextBranchLength]_vars

---------------------------------------------------------------------------
(* get_node_date on its own *)

TwoBounds == JList(<<JNum(2018), JNum(2020)>>)

\* the values a num_date key holds
NumDateValues ==
    {JNull, JNum(2020), Rat(4041, 2), JStr(<<"2", "0", "2", "0">>),
     JDict(EmptyDict),
     JDict([value |-> JNum(2021)]),
     JDict([confidence |-> TwoBounds]),
     JDict([value |-> JNum(2021), confidence |-> TwoBounds]),
     JDict([confidence |-> JList(<<JNum(2018)>>)])}

DateBags ==
    {JStr(<<"x">>), JDict(EmptyDict)} \cup {JDict([num_date |-> v]) : v \in NumDateValues}

DateNodes ==
    {Present([node_attrs |-> na, attr |-> a]) :
        na \in DateBags \cup {Absent}, a \in DateBags \cup {Absent}}

InitNodeDate ==
    /\ pc = "nd_call"
    /\ nd_node \in DateNodes
    /\ nd_result = JNull
    /\ bl_node = EmptyDict /\ bl_parent = JNull /\ bl_result = JNull
    /\ input = EmptyDict /\ lbi_file = EmptyDict /\ backup = TRUE /\ merges = 0
    /\ data = EmptyDict /\ rootKey = "none" /\ newick_str = <<>>
    /\ branch_lengths_data = EmptyDict /\ lbi_values = EmptyDict
    /\ updated_count = 0 /\ written = EmptyDict /\ visits = NoVisits

ResolveNodeDate ==
    /\ pc = "nd_call"
    /\ nd_result' = get_node_date(nd_node)
    /\ pc' = "nd_return"
    /\ UNCHANGED <<input, data, rootKey, newick_str, branch_lengths_data, lbi_file,
                   lbi_values, updated_count, backup, written, visits, merges,
                   bl_node, bl_parent, bl_result, nd_node>>

NextNodeDate == ResolveNodeDate

\* get_node_date applied to every node of DateNodes
SpecNodeDate == InitNodeDate /\ [][NextNodeDate]_vars

---------------------------------------------------------------------------
(* Helpers of the properties *)

Range(f) == {f[i] : i \in DOMAIN f}

\* the nodes of a tree, parent before children, children in input order,
\* each with the divergence of its parent
RECURSIVE Preorder(_, _)
RECURSIVE PreorderAll(_, _)
Preorder(node, parent_div) ==
    <<[node |-> node, parent_div |-> parent_div]>>
    \o PreorderAll(Children(node), get_divergence(node))

PreorderAll(children, parent_div) ==
    IF children = <<>> THEN <<>>
    ELSE Preorder(Head(children), parent_div) \o PreorderAll(Tail(children), parent_div)

\* the labels of a Newick text: the runs of characters between ( ) , ;
RECURSIVE SplitLabels(_, _, _)
SplitLabels(text, i, label) ==
    IF i > Len(text) THEN (IF label = <<>> THEN <<>> ELSE <<label>>)
    ELSE IF text[i] \in {"(", ")", ",", ";"}
    THEN (IF label = <<>> THEN <<>> ELSE <<label>>) \o SplitLabels(text, i + 1, <<>>)
    ELSE SplitLabels(text, i + 1, Append(label, text[i]))

\* a label without its ":length" suffix
RECURSIVE BeforeColon(_)
BeforeColon(label) ==
    IF label = <<>> \/ Head(label) = ":" THEN <<>>
    ELSE <<Head(label)>> \o BeforeColon(Tail(label))

\* the names a parser of the Newick text reads
NewickNameSet(text) == {BeforeColon(label) : label \in Range(SplitLabels(text, 1, <<>>))}

\* the tree the running tool was given
InputRoot == RootOf(input, FindRootKey(input))

---------------------------------------------------------------------------
(* Properties *)

\* C1: the traversals of json_to_newick, extract_node_data and
\* update_node_with_lbi, each started with the counter at 0, give every node
\* the same canonical name, in the same preorder sequence; so the names read
\* back from the Newick text are the keys of the extractor's "nodes" mapping,
\* and the merger looks its scores up under exactly those names.
C1_SameNames ==
    /\ visits.extract # <<>> =>
          /\ visits.newick = visits.extract
          /\ NewickNameSet(newick_str) = DOMAIN branch_lengths_data["nodes"]
    /\ visits.merge # <<>> =>
          /\ visits.merge = visits.newick
          /\ visits.merge = visits.extract
          /\ Range(visits.merge) = DOMAIN branch_lengths_data["nodes"]

\* C1 witness: the three traversals have run over a tree of three nodes with a
\* generated name and a sanitized one.
C1_Witness ==
    /\ pc = "m_done"
    /\ Len(visits.merge) = 3
    /\ <<"a", "_", "b">> \in Range(visits.merge)
    /\ LEAF_ \o Format07d(0) \in Range(visits.merge)

\* the name the k-th node without an identifier gets, for k - 1 < 10
ExpectedGenerated(node, k) ==
    (IF Len(Children(node)) >= 1 THEN <<"N", "O", "D", "E", "_">>
     ELSE <<"L", "E", "A", "F", "_">>)
    \o <<"0", "0", "0", "0", "0", "0">> \o <<DigitChar(k - 1)>>

\* the names of the nodes of a tree by the rule of C6: the identifier (the
\* value of name, or of strain when there is no name key) when it is not
\* empty, with its unsafe characters replaced; else the generated name
ExpectedNames(root) ==
    LET P == Preorder(root, JNull)
        unnamed(i) == ~Truthy(GetName(P[i].node))
    IN  [i \in 1..Len(P) |->
            IF unnamed(i)
            THEN ExpectedGenerated(P[i].node,
                                   Cardinality({j \in 1..i : unnamed(j)}))
            ELSE ReplaceUnsafe(GetName(P[i].node).s)]

\* C6: in a traversal started with the counter at 0, a node with an explicit
\* identifier keeps it and consumes no counter value; the k-th node without
\* one, in preorder, gets counter value k - 1 zero-padded to 7 digits after
\* NODE_ (it has a child) or LEAF_ (it has none).
C6_NameAssignment ==
    /\ visits.newick # <<>> => visits.newick = ExpectedNames(InputRoot)
    /\ visits.extract # <<>> => visits.extract = ExpectedNames(InputRoot)

\* C6 witness: an identifier-less leaf was named after an identifier-less
\* parent, with a named node between them in preorder.
C6_Witness ==
    /\ pc = "c_extracted"
    /\ visits.extract =
          <<NODE_ \o Format07d(0), <<"B">>, LEAF_ \o Format07d(1)>>

ScenarioDoc == [tree |-> ScenarioTree]

C7_Text(generated) ==
    <<"(", "B", ":", "0", ".", "5", "0", "0", "0", "0", "0", ",">>
    \o generated \o <<"0", "0", "0", "0", "0", "0", "0">>
    \o <<":", "0", ".", "3", "0", "0", "0", "0", "0", ")", "A", ";">>

\* C7 as stated: the scenario tree A(B, unnamed) converts to
\* (B:0.500000,NODE_0000000:0.300000)A; with the keys A, B, NODE_0000000.
C7_ScenarioAsStated ==
    (pc = "c_done" /\ input = ScenarioDoc) =>
        /\ written["newick"] = C7_Text(<<"N", "O", "D", "E", "_">>)
        /\ DOMAIN written["branch_lengths"]["nodes"]
              = {<<"A">>, <<"B">>, <<"N", "O", "D", "E", "_">>
                                   \o <<"0", "0", "0", "0", "0", "0", "0">>}

\* C7 amended: the unnamed node has no child, so the scenario tree converts to
\* (B:0.500000,LEAF_0000000:0.300000)A; with the keys A, B, LEAF_0000000.
C7_Scenario ==
    (pc = "c_done" /\ input = ScenarioDoc) =>
        /\ written["newick"] = C7_Text(<<"L", "E", "A", "F", "_">>)
        /\ DOMAIN written["branch_lengths"]["nodes"]
              = {<<"A">>, <<"B">>, <<"L", "E", "A", "F", "_">>
                                   \o <<"0", "0", "0", "0", "0", "0", "0">>}

\* C7 witness: the conversion of the scenario document has written both files.
C7_Witness ==
    /\ pc = "c_done"
    /\ input = ScenarioDoc
    /\ DOMAIN written = {"newick", "branch_lengths"}

\* the records the extractor has produced
Records == IF "nodes" \in DOMAIN branch_lengths_data
           THEN branch_lengths_data["nodes"] ELSE EmptyDict

\* C2: after create_branch_lengths_json, every record of "nodes" has a
\* "numdate" entry whose value is a number, whatever keys node_attrs carries.
C2_NumdateIsNumber ==
    \A name \in DOMAIN Records :
        /\ "numdate" \in DOMAIN Records[name]
        /\ Records[name]["numdate"].t = "num"

\* the nodes of the tree the extractor walked whose canonical name is name
NodesNamed(name) ==
    LET P == Preorder(InputRoot, JNull)
    IN  {P[i] : i \in {j \in 1..Len(P) : visits.extract[j] = name}}

\* a record as C9 describes it, for node p.node under divergence p.parent_div
RecordAsDescribed(record, p) ==
    LET length == get_branch_length(p.node, p.parent_div)
        div == get_divergence(p.node)
        attrs == IF "node_attrs" \in DOMAIN p.node /\ IsDict(p.node["node_attrs"])
                 THEN p.node["node_attrs"].m ELSE EmptyDict
    IN  /\ "branch_length" \in DOMAIN record =>
              /\ NumLt(JNum(0), length)
              /\ record["branch_length"] = length
        /\ "div" \in DOMAIN record =>
              /\ ~IsNone(div)
              /\ record["div"] = div
        /\ \A key \in DOMAIN record \ {"branch_length", "div", "numdate"} :
              /\ key \in DOMAIN attrs \ {"div", "num_date"}
              /\ \/ IsScalar(attrs[key]) /\ record[key] = attrs[key]
                 \/ /\ IsDict(attrs[key])
                    /\ "value" \in DOMAIN attrs[key].m
                    /\ record[key] = attrs[key].m["value"]

\* C9: in every record of the extractor, "branch_length" is there only if the
\* resolved branch length is > 0 and then holds it, "div" only if the
\* divergence is resolvable and then holds it, and every other key but
\* "numdate" is a scalar or {value: x} attribute copied from node_attrs, never
\* div or num_date.
C9_RecordFields ==
    visits.extract # <<>> =>
        \A name \in DOMAIN Records :
            \E p \in NodesNamed(name) : RecordAsDescribed(Records[name], p)

\* C8: no partial success: a finished run of the conversion has written both
\* the Newick file and the branch-lengths JSON or no file, and a finished run
\* of the merge has written the output document or no file.
C8_AllOrNothing ==
    /\ pc \in {"c_done", "c_exit"} =>
          DOMAIN written \in {{}, {"newick", "branch_lengths"}}
    /\ pc \in {"m_done", "m_exit"} =>
          (DOMAIN written = {} \/ "output" \in DOMAIN written)

\* the node of the call carries a div key in node_attrs or in attr
CarriesDiv ==
    \E bag \in {"node_attrs", "attr"} :
        /\ bag \in DOMAIN bl_node
        /\ bl_node[bag].t = "dict"
        /\ "div" \in DOMAIN bl_node[bag].m

\* C3 as stated: whatever node_attrs.div, attr.div and branch_length the node
\* carries and whatever the parent divergence, get_branch_length returns a
\* length >= 0.
C3_NonNegativeAsStated ==
    pc = "bl_return" => bl_result.n >= 0

\* C3 amended: the length is >= 0 whenever it is computed from a divergence or
\* the node has no branch_length field; an explicit branch_length of a node
\* without a div key is returned as it is, negative if the input is.
C3_NonNegative ==
    pc = "bl_return" =>
        /\ (CarriesDiv \/ "branch_length" \notin DOMAIN bl_node) => bl_result.n >= 0
        /\ (~CarriesDiv /\ "branch_length" \in DOMAIN bl_node) =>
              bl_result = bl_node["branch_length"]

\* C3 witness: a node whose divergence is below its parent's got length 0.
C3_Witness ==
    /\ pc = "bl_return"
    /\ "node_attrs" \in DOMAIN bl_node
    /\ bl_node["node_attrs"] = JDict([div |-> JNum(0)])
    /\ bl_parent = JNum(1)
    /\ bl_result = JNum(0)

\* max(0, x) of a number x
Clamped(x) == IF x.n < 0 THEN JNum(0) ELSE x

\* the length computed from divergence d (None when unavailable)
LengthFrom(d) ==
    CASE d.t = "num" /\ bl_parent.t = "num" ->
             Clamped(Rat(d.n * bl_parent.d - bl_parent.n * d.d, d.d * bl_parent.d))
      [] d.t = "num" /\ bl_parent.t # "num" -> Clamped(d)
      [] OTHER -> JNum(0)

\* the divergence of C10 as stated: node_attrs.div first, attr.div second
StatedDivergence ==
    IF "node_attrs" \in DOMAIN bl_node /\ bl_node["node_attrs"].t = "dict"
       /\ "div" \in DOMAIN bl_node["node_attrs"].m
    THEN bl_node["node_attrs"].m["div"]
    ELSE IF "attr" \in DOMAIN bl_node /\ bl_node["attr"].t = "dict"
            /\ "div" \in DOMAIN bl_node["attr"].m
    THEN bl_node["attr"].m["div"]
    ELSE JNull

\* C10 as stated: (1) an explicit branch_length is returned as it is, whether
\* or not the node also carries a divergence; (2)-(4) otherwise the length
\* comes from the divergence, clamped to 0.
C10_PriorityAsStated ==
    pc = "bl_return" =>
        bl_result = IF "branch_length" \in DOMAIN bl_node
                    THEN bl_node["branch_length"]
                    ELSE LengthFrom(StatedDivergence)

\* C10 amended: (1) when node_attrs has a div key, or else attr has one, the
\* length comes from that divergence (difference to the parent's when both are
\* non-null, the divergence alone without a parent's, 0 when it is null),
\* clamped to 0, and an explicit branch_length is ignored; (2) otherwise an
\* explicit branch_length is returned as it is; (3) otherwise 0.
C10_Priority ==
    pc = "bl_return" =>
        bl_result = IF CarriesDiv THEN LengthFrom(StatedDivergence)
                    ELSE IF "branch_length" \in DOMAIN bl_node
                    THEN bl_node["branch_length"]
                    ELSE JNum(0)

\* C10 witness: a node with both a divergence and an explicit branch_length
\* got the divergence difference.
C10_Witness ==
    /\ pc = "bl_return"
    /\ "branch_length" \in DOMAIN bl_node
    /\ bl_node["branch_length"] = Rat(1, 2)
    /\ "attr" \in DOMAIN bl_node
    /\ bl_node["attr"] = JDict([div |-> JNum(1)])
    /\ "node_attrs" \notin DOMAIN bl_node
    /\ bl_parent = Rat(1, 2)
    /\ bl_result = Rat(1, 2)

\* the number of entries of a colorings list with key "lbi"
CountLbi(colorings) ==
    Cardinality({i \in 1..Len(colorings) :
                    "key" \in DOMAIN colorings[i] /\ colorings[i]["key"] = "lbi"})

\* the colorings list of a document (empty when it has none)
ColoringsOf(d) ==
    IF "meta" \in DOMAIN d /\ "colorings" \in DOMAIN d["meta"]
    THEN d["meta"]["colorings"] ELSE <<>>

\* C4 as stated: after the second of two merges of the same score map, every
\* node has the node_attrs and attr the first merge left, and meta.colorings
\* holds exactly one entry with key "lbi".
C4_IdempotentAsStated ==
    (pc = "m_done" /\ merges = 2) =>
        /\ RootOf(data, rootKey) = RootOf(input, FindRootKey(input))
        /\ CountLbi(ColoringsOf(data)) = 1

\* C4 amended: a merge of the same score map into the output of a merge
\* changes no node and adds no colorings entry; a merge leaves one "lbi" entry
\* when the document it was given had none and keeps the entries it had (one,
\* or several) otherwise.
C4_Idempotent ==
    pc = "m_done" =>
        /\ CountLbi(ColoringsOf(data)) =
              IF CountLbi(ColoringsOf(input)) = 0 THEN 1
              ELSE CountLbi(ColoringsOf(input))
        /\ merges >= 2 =>
              /\ RootOf(data, rootKey) = RootOf(input, FindRootKey(input))
              /\ ColoringsOf(data) = ColoringsOf(input)
              /\ data = input

\* C4 witness: the second merge has ended, on a document whose nodes the
\* first merge updated and whose "lbi" coloring the first merge appended.
C4_Witness ==
    /\ pc = "m_done"
    /\ merges = 2
    /\ updated_count >= 2
    /\ CountLbi(ColoringsOf(data)) = 1
    /\ ColoringsOf(data)[Len(ColoringsOf(data))] = LbiColoring

\* a node without its children
Own(node) == [k \in DOMAIN node \ {"children"} |-> node[k]]

\* the entries of bag ("node_attrs" or "attr") of a node, none when absent
BagOf(node, bag) == IF bag \in DOMAIN node THEN node[bag].m ELSE EmptyDict

\* bag a is bag b with key "lbi" set to v and nothing else changed
OnlyLbiSet(a, b, v) ==
    /\ DOMAIN a = DOMAIN b \cup {"lbi"}
    /\ a["lbi"] = v
    /\ \A k \in DOMAIN b \ {"lbi"} : a[k] = b[k]

\* C5: update_node_with_lbi changes a node only if its canonical name is a
\* key of the score map: then node_attrs.lbi becomes {value: score}, attr.lbi
\* becomes score and the count grows by 1; every other node is left exactly
\* as it was, and no name, children or other attribute changes.
C5_Frame ==
    pc = "m_updated" =>
        LET B == Preorder(InputRoot, JNull)
            A == Preorder(RootOf(data, rootKey), JNull)
            hit(i) == visits.merge[i] \in DOMAIN lbi_values
        IN  /\ Len(A) = Len(B)
            /\ Len(visits.merge) = Len(B)
            /\ updated_count = Cardinality({i \in 1..Len(B) : hit(i)})
            /\ \A i \in 1..Len(B) :
                  LET a == A[i].node
                      b == B[i].node
                  IN  /\ ("children" \in DOMAIN a) = ("children" \in DOMAIN b)
                      /\ Len(Children(a)) = Len(Children(b))
                      /\ IF hit(i)
                         THEN /\ DOMAIN a = DOMAIN b \cup {"node_attrs", "attr"}
                              /\ \A k \in DOMAIN Own(b) \ {"node_attrs", "attr"} :
                                    a[k] = b[k]
                              /\ OnlyLbiSet(a["node_attrs"].m, BagOf(b, "node_attrs"),
                                            JDict([value |-> lbi_values[visits.merge[i]]]))
                              /\ OnlyLbiSet(a["attr"].m, BagOf(b, "attr"),
                                            lbi_values[visits.merge[i]])
                         ELSE Own(a) = Own(b)

\* C5 witness: a traversal of three nodes has updated one node that had
\* attributes and left the two others.
C5_Witness ==
    /\ pc = "m_updated"
    /\ Len(visits.merge) = 3
    /\ updated_count = 1
    /\ visits.merge[2] = <<"B">>
    /\ <<"B">> \in DOMAIN lbi_values

\* the num_date of a node's node_attrs, Absent when it has none
NodeAttrsNumDate(node) ==
    IF "node_attrs" \in DOMAIN node /\ IsDict(node["node_attrs"])
       /\ "num_date" \in DOMAIN node["node_attrs"].m
    THEN node["node_attrs"].m["num_date"] ELSE Absent

\* a mapping with a confidence list of two bounds
HasTwoBounds(nd) ==
    /\ IsDict(nd)
    /\ "confidence" \in DOMAIN nd.m
    /\ nd.m["confidence"].t = "list"
    /\ Len(nd.m["confidence"].l) = 2

Midpoint(a, b) == NumDiv(NumAdd(a, b), 2)

\* C11: get_node_date returns the explicit date by the first match among a
\* direct numeric num_date, a num_date wrapper with a value field, and a
\* num_date confidence interval of two bounds; a num_date mapping with a
\* two-element confidence list and no value field gives the midpoint of the
\* two bounds.
C11_ExplicitDate ==
    pc = "nd_return" =>
        LET nd == NodeAttrsNumDate(nd_node)
        IN  /\ nd.t = "num" => nd_result = nd
            /\ (IsDict(nd) /\ "value" \in DOMAIN nd.m) => nd_result = nd.m["value"]
            /\ (HasTwoBounds(nd) /\ "value" \notin DOMAIN nd.m) =>
                  nd_result = Midpoint(nd.m["confidence"].l[1], nd.m["confidence"].l[2])

\* the nodes of a tree the date pass has run over, parent before children,
\* each with the resolved date of its parent (Absent for the root)
RECURSIVE DatedNodes(_, _)
RECURSIVE DatedChildren(_, _)
DatedNodes(node, parent_date) ==
    <<[node |-> node, parent_date |-> parent_date]>>
    \o DatedChildren(Children(node), node["_computed_date"])

DatedChildren(children, parent_date) ==
    IF children = <<>> THEN <<>>
    ELSE DatedNodes(Head(children), parent_date)
         \o DatedChildren(Tail(children), parent_date)

\* the explicit dates of a sequence of nodes
ExplicitDates(nodes) ==
    LET has == SelectSeq(nodes, LAMBDA n : ~IsNone(get_node_date(n)))
    IN  [i \in 1..Len(has) |-> get_node_date(has[i])]

Mean(dates) == NumDiv(Sum(dates), Len(dates))

\* the date C12 gives node p.node, which has no explicit date, in a tree
\* whose explicit dates are all_explicit
StatedEstimate(p, all_explicit) ==
    LET of_children == ExplicitDates(Children(p.node))
    IN  IF p.parent_date # Absent /\ of_children # <<>>
        THEN Midpoint(p.parent_date, Mean(of_children))
        ELSE IF p.parent_date # Absent THEN p.parent_date
        ELSE IF all_explicit # <<>>
        THEN Midpoint(MinOf(all_explicit), MaxOf(all_explicit))
        ELSE JNum(2023)

\* the tree as the date pass of the running conversion left it
DatedRoot == RootOf(data, rootKey)

\* C12: after the date pass of create_branch_lengths_json, a node without an
\* explicit date has, as its resolved date: the midpoint of its parent's
\* resolved date and the mean of its children's explicit dates (it has a
\* parent and a child with an explicit date); its parent's resolved date (a
\* parent and no such child); the midpoint of the least and greatest explicit
\* date of the tree (no parent, at least one explicit date in the tree, a
\* single one included); 2023.0 only when the tree has no explicit date.
C12_DateEstimate ==
    pc = "c_extracted" =>
        LET P == DatedNodes(DatedRoot, Absent)
            all_explicit == ExplicitDates([i \in 1..Len(P) |-> P[i].node])
        IN  \A i \in 1..Len(P) :
                IsNone(get_node_date(P[i].node)) =>
                    P[i].node["_computed_date"] = StatedEstimate(P[i], all_explicit)

\* C13: the "nodes" mapping built by extract_node_data has as many entries
\* as the tree has nodes: no two nodes get the same canonical name and
\* overwrite each other's record.
C13_OneRecordPerNode ==
    pc = "c_extracted" =>
        Cardinality(DOMAIN Records) = Len(Preorder(InputRoot, JNull))

====
